---- MODULE Spec2Model ----
(***************************************************************************)
(* Model of the SPG validator's encounter simulator:                       *)
(*   src/geo_route_calculator.py  GeoRouteCalculator (polyline geometry)   *)
(*   src/simulation_engine.py     SimulationEngine   (controller, dynamics)*)
(*   src/simulation_data.py      SimulationResult, ResultTag              *)
(*                                                                         *)
(* Numbers.  The program computes in floating point; the model computes    *)
(* the same expressions exactly, on inputs for which every intermediate    *)
(* value is an integer:                                                    *)
(*   - latitudes / longitudes are whole degrees, so planar coordinates     *)
(*     are multiples of 60 NM;                                             *)
(*   - every reference latitude is 0, so cos_factor = cos(0) = 1;          *)
(*   - route segments are parallel to an axis (or have length zero), so    *)
(*     math.hypot of a segment is |dx| + |dy|;                             *)
(*   - speeds and time steps make speed * sec / 3600 a whole number;       *)
(*   - target courses are multiples of 90 degrees.                         *)
(* A distance between two arbitrary points (own ship to target, point to   *)
(* its projection) is kept as its square: x |-> x*x is strictly            *)
(* increasing on distances, so every comparison the code makes between     *)
(* two distances is the comparison of their squares.                       *)
(***************************************************************************)
EXTENDS Integers, Sequences, FiniteSets, TLC

VARIABLES
    events,                  \* SimulationEngine.events
    base_route,              \* SimulationEngine.base_route
    hinas_setup,             \* SimulationEngine.hinas_setup
    time_step_sec,           \* SimulationEngine.time_step_sec
    pc,                      \* "idle" | "dynamics" | "returned" | "raised"
    event_index,             \* argument of the simulate_event call in progress
    fallback,                \* TRUE when the call runs on events[i-1].safe_route
    own_sog,                 \* _simulate_dynamics: own_sog
    route_data,              \* _simulate_dynamics: route_data
    tgt_info,                \* _simulate_dynamics: tgt_info
    sec,                     \* _simulate_dynamics: the loop variable
    safe_path_reached_time,  \* _simulate_dynamics: safe_path_reached_time
    phase,                   \* branch of the loop body the last tick took
    res,                     \* the SimulationResult under construction / returned
    exc,                     \* the exception that ended the call, "" if none
    geo_pts,                 \* geometry call: the polyline (xs, ys)
    geo_dist,                \* geometry call: desired_dist
    geo_p,                   \* geometry call: the point (px, py)
    geo_op,                  \* geometry call: "none" before, then the function called
    geo_out,                 \* geometry call: its outcome
    marzip_dir,              \* runner: the .marzip files under base_data_dir
    csv,                     \* runner: the rows of SPG_result.csv, None if absent
    run_pc,                  \* runner: where SimulationRunner is
    runs,                    \* runner: number of run() calls so far
    marzip_files,            \* run: the files the loop has yet to visit
    processed_files,         \* run: processed_files
    marzip_file,             \* run: the file being simulated
    event_i,                 \* run: the loop variable i
    run_exc                  \* run: the exception that ended run(), "" if none

vars == <<events, base_route, hinas_setup, time_step_sec, pc, event_index,
          fallback, own_sog, route_data, tgt_info, sec,
          safe_path_reached_time, phase, res, exc,
          geo_pts, geo_dist, geo_p, geo_op, geo_out,
          marzip_dir, csv, run_pc, runs, marzip_files, processed_files,
          marzip_file, event_i, run_exc>>

runner == <<marzip_dir, csv, run_pc, runs, marzip_files, processed_files,
            marzip_file, event_i, run_exc>>

inputs == <<events, base_route, hinas_setup, time_step_sec>>

geo == <<geo_pts, geo_dist, geo_p, geo_op, geo_out>>

engine == <<events, base_route, hinas_setup, time_step_sec, pc, event_index,
            fallback, own_sog, route_data, tgt_info, sec,
            safe_path_reached_time, phase, res, exc>>

----------------------------------------------------------------------------
(* Python values *)

\* Optional[...]: None is the empty sequence, a value v is <<v>>.
None == <<>>

Some(v) == <<v>>

\* Truthiness of a dict or list: empty is false.
Truthy(v) == DOMAIN v # {}

Abs(n) == IF n < 0 THEN -n ELSE n

Min2(a, b) == IF a < b THEN a ELSE b

Max2(a, b) == IF a > b THEN a ELSE b

\* d.get(key, default)
Get(d, key, default) == IF key \in DOMAIN d THEN d[key] ELSE default

\* A raw numeric field as json.load delivers it: a number, or text that
\* float() rejects.
Num(n) == [num |-> n]

BadNum == [text |-> "n/a"]

\* float(v) of a raw field: the value, or ValueError.
FloatOk(v) == "num" \in DOMAIN v

\* try: float(d.get(key, 0)) except: 0.0
FloatOrZero(d, key) ==
    IF key \in DOMAIN d /\ FloatOk(d[key]) THEN d[key].num ELSE 0

\* The outcome of a function call: a value, or a raised exception.
Ok(v) == [ok |-> TRUE, val |-> v]

Raise(e) == [ok |-> FALSE, exc |-> e]

----------------------------------------------------------------------------
(* src/geo_route_calculator.py *)

\* math.hypot(dx, dy) of a route segment (parallel to an axis).
Hypot(dx, dy) ==
    CASE dx = 0 -> Abs(dy)
      [] dy = 0 -> Abs(dx)

\* math.hypot(dx, dy) ** 2 between two arbitrary points.
Hypot2(dx, dy) == dx * dx + dy * dy

\* cumdist of a polyline: cumdist[1] = 0, cumdist[i] = cumdist[i-1] + seg_len.
RECURSIVE CumDistTo(_, _)
CumDistTo(pts, n) ==
    IF n <= 1 THEN <<0>>
    ELSE LET c == CumDistTo(pts, n - 1)
         IN  Append(c, c[n - 1]
                       + Hypot(pts[n][1] - pts[n - 1][1], pts[n][2] - pts[n - 1][2]))

CumDist(pts) == CumDistTo(pts, Len(pts))

\* Total length of a polyline: sum of its segment lengths (0 if < 2 points).
TotalLength(pts) == IF Len(pts) < 2 THEN 0 ELSE CumDist(pts)[Len(pts)]

\* GeoRouteCalculator.interpolate_along_route(xs, ys, desired_dist).
\* pts[i] = <<xs[i], ys[i]>>.  Returns Ok(<<x, y>>) or the exception raised.
interpolate_along_route(pts, desired_dist) ==
    IF Len(pts) < 2
    THEN IF Len(pts) = 0 THEN Raise("IndexError") ELSE Ok(pts[1])
    ELSE LET n == Len(pts)
             cumdist == CumDist(pts)
         IN  IF desired_dist >= cumdist[n]
             THEN Ok(pts[n])
             ELSE LET i == CHOOSE k \in 2..n :
                               /\ cumdist[k] >= desired_dist
                               /\ \A j \in 2..(k - 1) : cumdist[j] < desired_dist
                      den == cumdist[i] - cumdist[i - 1]
                      num == desired_dist - cumdist[i - 1]
                  IN  IF den = 0
                      THEN Raise("ZeroDivisionError")
                      ELSE Ok(<<pts[i - 1][1] + (num * (pts[i][1] - pts[i - 1][1])) \div den,
                                pts[i - 1][2] + (num * (pts[i][2] - pts[i - 1][2])) \div den>>)

\* One iteration of the loop of project_point_onto_polyline, for segment
\* (i-1, i).  st = [along, best2]: best_dist_along and best_distance squared
\* (None = inf).  along_t is t * seg_len.
ProjectStep(p, pts, cumdist, i, st) ==
    LET dx == pts[i][1] - pts[i - 1][1]
        dy == pts[i][2] - pts[i - 1][2]
        seg_len == Hypot(dx, dy)
    IN  IF seg_len = 0 THEN st
        ELSE LET dot == (p[1] - pts[i - 1][1]) * dx + (p[2] - pts[i - 1][2]) * dy
                 along_t == Max2(0, Min2(seg_len, dot \div seg_len))
                 proj_x == pts[i - 1][1] + (along_t * dx) \div seg_len
                 proj_y == pts[i - 1][2] + (along_t * dy) \div seg_len
                 dist2 == Hypot2(p[1] - proj_x, p[2] - proj_y)
             IN  IF st.best2 = None \/ dist2 < st.best2[1]
                 THEN [along |-> cumdist[i - 1] + along_t, best2 |-> Some(dist2)]
                 ELSE st

RECURSIVE ProjectTo(_, _, _, _)
ProjectTo(p, pts, cumdist, n) ==
    IF n <= 1 THEN [along |-> 0, best2 |-> None]
    ELSE ProjectStep(p, pts, cumdist, n, ProjectTo(p, pts, cumdist, n - 1))

\* GeoRouteCalculator.project_point_onto_polyline(px, py, xs, ys).
project_point_onto_polyline(p, pts) ==
    ProjectTo(p, pts, CumDist(pts), Len(pts)).along

----------------------------------------------------------------------------
(* src/simulation_data.py *)

\* ResultTag
ResultTag == {"NA_NO_PATH", "NA_COLLISION", "NA_SAFE_TARGET", "COLLISION", "NO_COLLISION"}

\* SimulationResult(event_index=i): the dataclass defaults.
\* min_distance holds the square of the distance (see the module header).
SimulationResult(i) ==
    [event_index |-> i, has_path |-> TRUE, is_fail |-> FALSE,
     fail_time_sec |-> None, min_distance |-> None, min_distance_time |-> 0,
     times |-> <<>>, own_positions |-> <<>>, targets_positions |-> <<>>,
     result_tag |-> None]

----------------------------------------------------------------------------
(* src/simulation_engine.py: configuration *)

\* SimulationEngine.collision_dist (constructor argument), in NM.
collision_dist == 60

\* SimulationEngine.sim_duration_sec (constructor argument).
sim_duration_sec == 21600

\* Mutant of TimeoutSec: the minutes are taken for seconds.
TimeoutSec_Seconds(setup) == Get(setup, "TCPA_GW", 60)

\* self.hinas_setup.get("TCPA_GW", 60) * 60
TimeoutSec(setup) == Get(setup, "TCPA_GW", 60) * 60

----------------------------------------------------------------------------
(* src/simulation_engine.py: _prepare_routes, _prepare_target_info *)

\* math.cos(math.radians(ref_lat)); every modelled reference latitude is 0.
CosFactor(ref_lat) == CASE ref_lat = 0 -> 1

\* ((lon - ref_lon) * 60 * cos_factor, (lat - ref_lat) * 60)
ToPlanar(position, ref_lat, ref_lon, cos_factor) ==
    <<(position.longitude - ref_lon) * 60 * cos_factor,
      (position.latitude - ref_lat) * 60>>

PlanarRoute(route, ref_lat, ref_lon, cos_factor) ==
    [k \in 1..Len(route) |-> ToPlanar(route[k].position, ref_lat, ref_lon, cos_factor)]

\* SimulationEngine._prepare_routes(own_ev, safe_route), reading self.base_route.
prepare_routes(base, own_ev, safe_route) ==
    LET start_lat == own_ev.position.latitude
        start_lon == own_ev.position.longitude
        ref_lat == IF Truthy(base) THEN base[1].position.latitude ELSE start_lat
        ref_lon == IF Truthy(base) THEN base[1].position.longitude ELSE start_lon
        cos_factor == CosFactor(ref_lat)
        start == ToPlanar(own_ev.position, ref_lat, ref_lon, cos_factor)
        safe == PlanarRoute(safe_route, ref_lat, ref_lon, cos_factor)
        basep == IF Truthy(base) THEN PlanarRoute(base, ref_lat, ref_lon, cos_factor)
                 ELSE <<>>
    IN  [ref_lat |-> ref_lat, ref_lon |-> ref_lon, cos_factor |-> cos_factor,
         safe |-> safe,
         total_safe_dist |-> TotalLength(safe),
         base |-> basep,
         base_total_dist |-> IF Truthy(basep) THEN TotalLength(basep) ELSE 0,
         proj_dist |-> IF Len(safe) > 1
                       THEN project_point_onto_polyline(start, safe) ELSE 0]

\* math.radians(cog), in quarter turns (cog is a multiple of 90 degrees).
Radians(cog) == cog \div 90

\* math.sin / math.cos of an angle given in quarter turns.
Sin(arad) == CASE arad % 4 = 0 -> 0 [] arad % 4 = 1 -> 1
               [] arad % 4 = 2 -> 0 [] arad % 4 = 3 -> -1

Cos(arad) == CASE arad % 4 = 0 -> 1 [] arad % 4 = 1 -> 0
               [] arad % 4 = 2 -> -1 [] arad % 4 = 3 -> 0

\* Mutant of TargetTuple: a field that does not parse is zeroed alone, the
\* other one keeps its value.
TargetTuple_KeepsGoodField(t, ref_lat, ref_lon, cos_factor) ==
    LET sog == FloatOrZero(t, "sog")
        cog == FloatOrZero(t, "cog")
        xy == ToPlanar(t.position, ref_lat, ref_lon, cos_factor)
    IN  <<xy[1], xy[2], sog, Radians(cog)>>

\* The tuple (tx0, ty0, sog, arad) of one target ship that has a position.
TargetTuple(t, ref_lat, ref_lon, cos_factor) ==
    LET good == FloatOk(Get(t, "sog", Num(0))) /\ FloatOk(Get(t, "cog", Num(0)))
        sog == IF good THEN Get(t, "sog", Num(0)).num ELSE 0
        cog == IF good THEN Get(t, "cog", Num(0)).num ELSE 0
        xy == ToPlanar(t.position, ref_lat, ref_lon, cos_factor)
    IN  <<xy[1], xy[2], sog, Radians(cog)>>

\* SimulationEngine._prepare_target_info(event, ref_lat, ref_lon, cos_factor)
RECURSIVE TargetInfoTo(_, _, _, _, _)
TargetInfoTo(ships, n, ref_lat, ref_lon, cos_factor) ==
    IF n = 0 THEN <<>>
    ELSE LET rest == TargetInfoTo(ships, n - 1, ref_lat, ref_lon, cos_factor)
         IN  IF ~Truthy(Get(ships[n], "position", <<>>)) THEN rest
             ELSE Append(rest, TargetTuple(ships[n], ref_lat, ref_lon, cos_factor))

prepare_target_info(event, ref_lat, ref_lon, cos_factor) ==
    LET ships == Get(event, "target_ships", <<>>)
    IN  TargetInfoTo(ships, Len(ships), ref_lat, ref_lon, cos_factor)

----------------------------------------------------------------------------
(* src/simulation_engine.py: _simulate_dynamics, one iteration of its loop *)

\* own_sog * (sec / 3600.0)
Traveled(sog, s) == (sog * s) \div 3600

\* Mutant of TargetStep: a target at exactly collision_dist counts as a
\* collision (<= for < at line 192).
TargetStep_HitAtThreshold(r, tgt, idx, s, o) ==
    LET dt == Traveled(tgt[3], s)
        tx == tgt[1] + dt * Sin(tgt[4])
        ty == tgt[2] + dt * Cos(tgt[4])
        tp == IF idx > Len(r.targets_positions)
              THEN Append(r.targets_positions, <<>>) ELSE r.targets_positions
        tp2 == [tp EXCEPT ![idx] = Append(@, <<tx, ty>>)]
        dd2 == Hypot2(o[1] - tx, o[2] - ty)
        newmin == r.min_distance = None \/ dd2 < r.min_distance[1]
        hit == dd2 <= collision_dist * collision_dist /\ ~r.is_fail
    IN  [r EXCEPT !.targets_positions = tp2,
                  !.min_distance = IF newmin THEN Some(dd2) ELSE @,
                  !.min_distance_time = IF newmin THEN s ELSE @,
                  !.is_fail = IF hit THEN TRUE ELSE @,
                  !.fail_time_sec = IF hit THEN Some(s) ELSE @]

\* The target loop of one tick for target idx (lines 179-195): r is the
\* result so far, o the own-ship position of this tick.
TargetStep(r, tgt, idx, s, o) ==
    LET dt == Traveled(tgt[3], s)
        tx == tgt[1] + dt * Sin(tgt[4])
        ty == tgt[2] + dt * Cos(tgt[4])
        tp == IF idx > Len(r.targets_positions)
              THEN Append(r.targets_positions, <<>>) ELSE r.targets_positions
        tp2 == [tp EXCEPT ![idx] = Append(@, <<tx, ty>>)]
        dd2 == Hypot2(o[1] - tx, o[2] - ty)
        newmin == r.min_distance = None \/ dd2 < r.min_distance[1]
        hit == dd2 < collision_dist * collision_dist /\ ~r.is_fail
    IN  [r EXCEPT !.targets_positions = tp2,
                  !.min_distance = IF newmin THEN Some(dd2) ELSE @,
                  !.min_distance_time = IF newmin THEN s ELSE @,
                  !.is_fail = IF hit THEN TRUE ELSE @,
                  !.fail_time_sec = IF hit THEN Some(s) ELSE @]

RECURSIVE TargetLoop(_, _, _, _, _)
TargetLoop(r, tgts, n, s, o) ==
    IF n = 0 THEN r
    ELSE TargetStep(TargetLoop(r, tgts, n - 1, s, o), tgts[n], n, s, o)

\* Mutant of Advance: safe_path_reached_time does not survive a tick spent
\* past the safe route, so the next such tick sets it again.
Advance_ForgetsReached(r, tgts, s, o, srt, ph) ==
    [res |-> TargetLoop([r EXCEPT !.own_positions = Append(@, o)], tgts, Len(tgts), s, o),
     srt |-> IF ph = "ON_SAFE" THEN srt ELSE None, phase |-> ph, brk |-> FALSE, exc |-> ""]

\* A tick that records position o and goes on to the target loop (line 177 on).
Advance(r, tgts, s, o, srt, ph) ==
    [res |-> TargetLoop([r EXCEPT !.own_positions = Append(@, o)], tgts, Len(tgts), s, o),
     srt |-> srt, phase |-> ph, brk |-> FALSE, exc |-> ""]

\* A tick that records position o, appends the tick once more and breaks
\* (lines 159-162 and 168-171).
Terminate(r, s, o, srt, ph) ==
    [res |-> [r EXCEPT !.own_positions = Append(@, o), !.times = Append(@, s)],
     srt |-> srt, phase |-> ph, brk |-> TRUE, exc |-> ""]

\* A tick in which a geometry call raises.
Raised(r, srt, e) ==
    [res |-> r, srt |-> srt, phase |-> "RAISED", brk |-> TRUE, exc |-> e]

\* Mutant of DynamicsStep: the distance along the base route leaves out the
\* offset of the safe route's end (base_des = remain at line 166).
DynamicsStep_NoBaseOffset(r0, rd, tgts, sog, setup, s, srt0) ==
    LET r == [r0 EXCEPT !.times = Append(@, s)]
        desired_dist == rd.proj_dist + Traveled(sog, s)
    IN  IF desired_dist <= rd.total_safe_dist
        THEN LET o == interpolate_along_route(rd.safe, desired_dist)
             IN  IF o.ok THEN Advance(r, tgts, s, o.val, srt0, "ON_SAFE")
                 ELSE Raised(r, srt0, o.exc)
        ELSE LET end == rd.safe[Len(rd.safe)]
                 srt == IF srt0 = None THEN Some(s) ELSE srt0
                 remain == desired_dist - rd.total_safe_dist
             IN  IF s - srt[1] >= TimeoutSec(setup)
                 THEN Terminate(r, s, end, srt, "TERM_TIMEOUT")
                 ELSE IF rd.base_total_dist # 0
                 THEN LET base_des == remain
                      IN  IF base_des >= rd.base_total_dist
                          THEN Terminate(r, s, rd.base[Len(rd.base)], srt, "TERM_BASE_END")
                          ELSE LET o == interpolate_along_route(rd.base, base_des)
                               IN  IF o.ok THEN Advance(r, tgts, s, o.val, srt, "ON_BASE")
                                   ELSE Raised(r, srt, o.exc)
                 ELSE Advance(r, tgts, s, end, srt, "HOLD")

\* The body of the loop of _simulate_dynamics for tick s (lines 148-195).
DynamicsStep(r0, rd, tgts, sog, setup, s, srt0) ==
    LET r == [r0 EXCEPT !.times = Append(@, s)]
        desired_dist == rd.proj_dist + Traveled(sog, s)
    IN  IF desired_dist <= rd.total_safe_dist
        THEN LET o == interpolate_along_route(rd.safe, desired_dist)
             IN  IF o.ok THEN Advance(r, tgts, s, o.val, srt0, "ON_SAFE")
                 ELSE Raised(r, srt0, o.exc)
        ELSE LET end == rd.safe[Len(rd.safe)]
                 srt == IF srt0 = None THEN Some(s) ELSE srt0
                 remain == desired_dist - rd.total_safe_dist
             IN  IF s - srt[1] >= TimeoutSec(setup)
                 THEN Terminate(r, s, end, srt, "TERM_TIMEOUT")
                 ELSE IF rd.base_total_dist # 0
                 THEN LET base_st == project_point_onto_polyline(end, rd.base)
                          base_des == base_st + remain
                      IN  IF base_des >= rd.base_total_dist
                          THEN Terminate(r, s, rd.base[Len(rd.base)], srt, "TERM_BASE_END")
                          ELSE LET o == interpolate_along_route(rd.base, base_des)
                               IN  IF o.ok THEN Advance(r, tgts, s, o.val, srt, "ON_BASE")
                                   ELSE Raised(r, srt, o.exc)
                 ELSE Advance(r, tgts, s, end, srt, "HOLD")

----------------------------------------------------------------------------
(* src/simulation_engine.py: simulate_event, _simulate_event_with_safe_route *)

\* Mutant of NoPath: the early return forgets the tag, as the early returns
\* of _simulate_event_with_safe_route do.
NoPath_Untagged(i) ==
    [SimulationResult(i) EXCEPT !.has_path = FALSE]

\* The result returned without a dynamics run (lines 234-256).
NoPath(i) ==
    [SimulationResult(i) EXCEPT !.has_path = FALSE, !.result_tag = Some("NA_NO_PATH")]

\* Mutant of SelectRoute: the fallback keeps looking back past event i-1.
SelectRoute_LookBackTwo(evs, i) ==
    IF ~Truthy(evs) \/ i < 0 \/ i >= Len(evs) THEN [run |-> FALSE]
    ELSE IF ~Truthy(Get(evs[i + 1], "own_ship_event", <<>>)) THEN [run |-> FALSE]
    ELSE IF Truthy(Get(evs[i + 1], "safe_route", <<>>))
         THEN [run |-> TRUE, route |-> evs[i + 1].safe_route, fallback |-> FALSE]
    ELSE IF i = 0 THEN [run |-> FALSE]
    ELSE IF Truthy(Get(evs[i], "safe_route", <<>>))
         THEN [run |-> TRUE, route |-> evs[i].safe_route, fallback |-> TRUE]
    ELSE IF i >= 2 /\ Truthy(Get(evs[i - 1], "safe_route", <<>>))
         THEN [run |-> TRUE, route |-> evs[i - 1].safe_route, fallback |-> TRUE]
    ELSE [run |-> FALSE]

\* Which route simulate_event(i) runs the dynamics on (lines 235-261):
\* [run |-> FALSE], or [run |-> TRUE, route |-> ..., fallback |-> ...].
SelectRoute(evs, i) ==
    IF ~Truthy(evs) \/ i < 0 \/ i >= Len(evs) THEN [run |-> FALSE]
    ELSE IF ~Truthy(Get(evs[i + 1], "own_ship_event", <<>>)) THEN [run |-> FALSE]
    ELSE IF Truthy(Get(evs[i + 1], "safe_route", <<>>))
         THEN [run |-> TRUE, route |-> evs[i + 1].safe_route, fallback |-> FALSE]
    ELSE IF i = 0 THEN [run |-> FALSE]
    ELSE IF ~Truthy(Get(evs[i], "safe_route", <<>>)) THEN [run |-> FALSE]
    ELSE [run |-> TRUE, route |-> evs[i].safe_route, fallback |-> TRUE]

\* Mutant of DynamicsTag: the two tags swapped.
DynamicsTag_Swapped(r) == IF r.is_fail THEN "NO_COLLISION" ELSE "COLLISION"

\* The tag _simulate_event_with_safe_route gives a dynamics result (line 226).
DynamicsTag(r) == IF r.is_fail THEN "COLLISION" ELSE "NO_COLLISION"

\* Mutant of FallbackTag: the fallback run keeps the tag of an own-route run.
FallbackTag_Kept(r) == r.result_tag[1]

\* The tag simulate_event puts on a fallback run's result (line 258).
FallbackTag(r) == IF r.is_fail THEN "NA_COLLISION" ELSE "NA_NO_PATH"

\* Mutant of Finish: the fallback run is tagged NA_SAFE_TARGET when no
\* collision was found.
Finish_SafeTarget(r, i, fb) ==
    LET tagged == [r EXCEPT !.event_index = i, !.result_tag = Some(DynamicsTag(r))]
    IN  IF fb THEN [tagged EXCEPT !.result_tag =
                        Some(IF tagged.is_fail THEN "NA_COLLISION" ELSE "NA_SAFE_TARGET")]
        ELSE tagged

\* The result a finished dynamics run is returned as (lines 225-227, 258-259).
Finish(r, i, fb) ==
    LET tagged == [r EXCEPT !.event_index = i, !.result_tag = Some(DynamicsTag(r))]
    IN  IF fb THEN [tagged EXCEPT !.result_tag = Some(FallbackTag(tagged))] ELSE tagged

\* route_data before any dynamics run.
NoRouteData ==
    [ref_lat |-> 0, ref_lon |-> 0, cos_factor |-> 1, safe |-> <<>>,
     total_safe_dist |-> 0, base |-> <<>>, base_total_dist |-> 0, proj_dist |-> 0]

----------------------------------------------------------------------------
(* Inputs: what MarzipExtractor.load_marzip hands to the engine *)

\* Longest event list.
MaxEvents == 3

\* A route point / waypoint: {"position": {"latitude": .., "longitude": ..}}.
P(lat, lon) == [position |-> [latitude |-> lat, longitude |-> lon]]

\* Safe routes: a single point, a straight leg, the same leg with its first
\* point repeated, with an inner point repeated, an L-shaped route that ends
\* off the base route, and two identical points.
RSingle == <<P(0, 0)>>

RLine == <<P(0, 0), P(0, 2)>>

RDupStart == <<P(0, 0), P(0, 0), P(0, 2)>>

RDupMid == <<P(0, 0), P(0, 1), P(0, 1), P(0, 2)>>

RBend == <<P(0, 0), P(0, 1), P(1, 1)>>

RSame == <<P(0, 1), P(0, 1)>>

SafeRoutes == {RSingle, RLine, RDupStart, RDupMid, RBend, RSame}

\* Base routes: none, one waypoint, a short and a long leg along latitude 0.
BaseRoutes == {<<>>, <<P(0, 0)>>, <<P(0, 1), P(0, 4)>>, <<P(0, 0), P(0, 6)>>}

\* Own-ship states: the event's own-ship record, {} when none was recorded.
OwnStates ==
    {[position |-> [latitude |-> 0, longitude |-> 0], sog |-> Num(60)],
     [position |-> [latitude |-> 0, longitude |-> 1], sog |-> Num(120)],
     [position |-> [latitude |-> 0, longitude |-> 0], sog |-> BadNum]}

\* Target ships.
TStill == [position |-> [latitude |-> 0, longitude |-> 4], sog |-> Num(0), cog |-> Num(0)]

TSouth == [position |-> [latitude |-> 2, longitude |-> 2], sog |-> Num(60), cog |-> Num(180)]

TWest == [position |-> [latitude |-> 0, longitude |-> 5], sog |-> Num(60), cog |-> Num(270)]

TNoPos == [sog |-> Num(60), cog |-> Num(90)]

TBadCog == [position |-> [latitude |-> 0, longitude |-> 2], sog |-> Num(60), cog |-> BadNum]

TargetLists == {<<>>, <<TStill>>, <<TSouth>>, <<TNoPos, TWest>>, <<TBadCog, TSouth>>}

Event(own, route, ships) ==
    [own_ship_event |-> own, safe_route |-> route, target_ships |-> ships]

\* Events of a single-event encounter: every own-ship state on every safe
\* route against every target list.
RichEvents ==
    {Event(o, r, t) : o \in OwnStates, r \in SafeRoutes, t \in TargetLists}

\* Events of a multi-event encounter: with and without own-ship state, with
\* and without a safe route.
ChainEvents ==
    {Event(<<>>, RLine, <<TStill>>),
     Event([position |-> [latitude |-> 0, longitude |-> 0], sog |-> Num(60)], <<>>, <<TSouth>>),
     Event([position |-> [latitude |-> 0, longitude |-> 0], sog |-> Num(60)], RLine, <<>>),
     Event([position |-> [latitude |-> 0, longitude |-> 1], sog |-> Num(120)], RBend, <<TStill>>)}

RECURSIVE SeqsUpTo(_, _)
SeqsUpTo(S, n) ==
    IF n = 0 THEN {<<>>}
    ELSE LET shorter == SeqsUpTo(S, n - 1)
         IN  shorter \cup {Append(q, e) : q \in {x \in shorter : Len(x) = n - 1}, e \in S}

EventLists == SeqsUpTo(ChainEvents, MaxEvents) \cup {<<e>> : e \in RichEvents}

\* hinas_setup: without and with a TCPA_GW entry (minutes).
HinasSetups == {<<>>, [TCPA_GW |-> 90], [TCPA_GW |-> 300]}

TimeSteps == {1800, 3600}

----------------------------------------------------------------------------
(* The state machine *)

\* No geometry call under way.
GeoIdle ==
    /\ geo_pts = <<>>
    /\ geo_dist = 0
    /\ geo_p = <<0, 0>>
    /\ geo_op = "none"
    /\ geo_out = Ok(0)

\* No runner constructed, no output file.
RunnerIdle ==
    /\ marzip_dir = <<>>
    /\ csv = None
    /\ run_pc = "none"
    /\ runs = 0
    /\ marzip_files = {}
    /\ processed_files = {}
    /\ marzip_file = ""
    /\ event_i = 0
    /\ run_exc = ""

\* The engine as constructed, before any simulate_event call.
EngineIdle ==
    /\ pc = "idle"
    /\ event_index = 0
    /\ fallback = FALSE
    /\ own_sog = 0
    /\ route_data = NoRouteData
    /\ tgt_info = <<>>
    /\ sec = 0
    /\ safe_path_reached_time = None
    /\ phase = "NONE"
    /\ res = SimulationResult(0)
    /\ exc = ""

Init ==
    /\ events \in EventLists
    /\ base_route \in BaseRoutes
    /\ hinas_setup \in HinasSetups
    /\ time_step_sec \in TimeSteps
    /\ EngineIdle
    /\ GeoIdle
    /\ RunnerIdle

\* simulate_event(i) up to the first tick of the dynamics loop: the early
\* returns, or _simulate_event_with_safe_route up to the call of
\* _simulate_dynamics.
SimulateEvent(i) ==
    /\ pc # "dynamics"
    /\ event_index' = i
    /\ sec' = 0
    /\ safe_path_reached_time' = None
    /\ phase' = "NONE"
    /\ exc' = ""
    /\ LET sel == SelectRoute(events, i)
       IN  IF sel.run
           THEN LET event == events[i + 1]
                    own_ev == event.own_ship_event
                    rd == prepare_routes(base_route, own_ev, sel.route)
                IN  /\ pc' = "dynamics"
                    /\ fallback' = sel.fallback
                    /\ own_sog' = FloatOrZero(own_ev, "sog")
                    /\ route_data' = rd
                    /\ tgt_info' = prepare_target_info(event, rd.ref_lat, rd.ref_lon,
                                                       rd.cos_factor)
                    /\ res' = SimulationResult(0)
           ELSE /\ pc' = "returned"
                /\ fallback' = FALSE
                /\ own_sog' = 0
                /\ route_data' = NoRouteData
                /\ tgt_info' = <<>>
                /\ res' = NoPath(i)
    /\ UNCHANGED <<inputs, geo, runner>>

\* One iteration of the loop of _simulate_dynamics; the last one (a break,
\* or the end of the range) also returns the result through
\* _simulate_event_with_safe_route and simulate_event.
Tick ==
    /\ pc = "dynamics"
    /\ LET st == DynamicsStep(res, route_data, tgt_info, own_sog, hinas_setup,
                              sec, safe_path_reached_time)
           last == st.brk \/ sec + time_step_sec > sim_duration_sec
       IN  /\ safe_path_reached_time' = st.srt
           /\ phase' = st.phase
           /\ exc' = st.exc
           /\ IF st.exc # ""
              THEN pc' = "raised" /\ res' = st.res /\ sec' = sec
              ELSE IF last
              THEN pc' = "returned" /\ res' = Finish(st.res, event_index, fallback)
                   /\ sec' = sec
              ELSE pc' = "dynamics" /\ res' = st.res /\ sec' = sec + time_step_sec
    /\ UNCHANGED <<inputs, event_index, fallback, own_sog, route_data, tgt_info, geo,
                   runner>>

Next ==
    \/ \E i \in -1..MaxEvents : SimulateEvent(i)
    \/ Tick

Spec == Init /\ [][Next]_vars

----------------------------------------------------------------------------
(* The geometry functions on their own: GeoRouteCalculator called directly *)

\* Largest grid coordinate of a query point, in units of 60 NM.
MaxCoord == 2

\* Polylines in planar coordinates: the safe routes above, and the empty one.
Polylines == {<<>>} \cup {PlanarRoute(r, 0, 0, 1) : r \in SafeRoutes}

\* Query distances: from 0 to beyond the end of every polyline, in steps of 30 NM.
QueryDists == {30 * k : k \in 0..(2 * MaxCoord + 2)}

\* Query points.
QueryPoints == {<<60 * x, 60 * y>> : x \in -1..MaxCoord, y \in -1..MaxCoord}

InitGeo ==
    /\ events = <<>>
    /\ base_route = <<>>
    /\ hinas_setup = <<>>
    /\ time_step_sec = 3600
    /\ EngineIdle
    /\ geo_pts \in Polylines
    /\ geo_dist \in QueryDists
    /\ geo_p \in QueryPoints
    /\ geo_op = "none"
    /\ geo_out = Ok(0)
    /\ RunnerIdle

\* GeoRouteCalculator.interpolate_along_route(xs, ys, desired_dist)
Interpolate ==
    /\ geo_op = "none"
    /\ geo_op' = "interpolate"
    /\ geo_out' = interpolate_along_route(geo_pts, geo_dist)
    /\ UNCHANGED <<engine, geo_pts, geo_dist, geo_p, runner>>

\* GeoRouteCalculator.project_point_onto_polyline(px, py, xs, ys)
Project ==
    /\ geo_op = "none"
    /\ geo_op' = "project"
    /\ geo_out' = Ok(project_point_onto_polyline(geo_p, geo_pts))
    /\ UNCHANGED <<engine, geo_pts, geo_dist, geo_p, runner>>

NextGeo == Interpolate \/ Project

SpecGeo == InitGeo /\ [][NextGeo]_vars

----------------------------------------------------------------------------
(* src/simulation_runner.py, src/simulation_recorder.py: the batch runner *)

\* Most run() calls, and most events in one file.
MaxRuns == 3

MaxFileEvents == 2

\* The .marzip paths os.walk finds under base_data_dir.
MarzipPaths == {"a.marzip", "sub/b.marzip"}

\* What simulate_event does on one event of a file: it returns a result with
\* some tag, or it raises (see DynamicsNeverRaises).
EventOutcomes == {"NO_COLLISION", "raise"}

\* A file on disk: whether load_marzip can read it, and what simulate_event
\* does on each of its events.
MarzipContents ==
    {[readable |-> FALSE, outcomes |-> <<>>]}
        \cup {[readable |-> TRUE, outcomes |-> o] : o \in SeqsUpTo(EventOutcomes, MaxFileEvents)}

\* The header row init_csv writes (the columns min_distance and
\* fail_time_sec are left out of the rows here).
CsvHeader == <<"file", "event_index", "result_tag">>

\* SimulationRecorder.__init__: the header is written only if the file is missing.
recorder_init(file) == IF file = None THEN Some(<<CsvHeader>>) ELSE file

\* The row record() appends: csv.writer writes every field as text.
CsvRow(file, sim_result) ==
    <<file, ToString(sim_result.event_index),
      IF sim_result.result_tag # None THEN sim_result.result_tag[1] ELSE "">>

\* SimulationRecorder.record(file, sim_result)
record(rows, file, sim_result) == Some(Append(rows[1], CsvRow(file, sim_result)))

\* Mutant of load_processed_files: the set is built from the second column.
load_processed_files_WrongColumn(file) ==
    IF file = None THEN {}
    ELSE {file[1][k][2] : k \in 2..Len(file[1])}

\* SimulationRunner.load_processed_files: the first column of every row
\* after the first.
load_processed_files(file) ==
    IF file = None THEN {}
    ELSE {file[1][k][1] : k \in 2..Len(file[1])}

\* The result simulate_event(i) returns when it returns with the given tag.
ResultOf(i, tag) == [SimulationResult(i) EXCEPT !.result_tag = Some(tag)]

InitRunner ==
    /\ events = <<>>
    /\ base_route = <<>>
    /\ hinas_setup = <<>>
    /\ time_step_sec = 3600
    /\ EngineIdle
    /\ GeoIdle
    /\ marzip_dir \in [MarzipPaths -> MarzipContents]
    /\ csv = None
    /\ run_pc = "none"
    /\ runs = 0
    /\ marzip_files = {}
    /\ processed_files = {}
    /\ marzip_file = ""
    /\ event_i = 0
    /\ run_exc = ""

\* SimulationRunner(base_data_dir, output_path): constructs the recorder.
NewRunner ==
    /\ run_pc \in {"none", "done"}
    /\ run_pc' = "idle"
    /\ csv' = recorder_init(csv)
    /\ run_exc' = ""
    /\ UNCHANGED <<engine, geo, marzip_dir, runs, marzip_files, processed_files,
                   marzip_file, event_i>>

\* run(), lines 46-51: list the files, load the processed set.
RunStart ==
    /\ run_pc \in {"idle", "done"}
    /\ runs < MaxRuns
    /\ runs' = runs + 1
    /\ run_pc' = "files"
    /\ marzip_files' = DOMAIN marzip_dir
    /\ processed_files' = load_processed_files(csv)
    /\ run_exc' = ""
    /\ UNCHANGED <<engine, geo, marzip_dir, csv, marzip_file, event_i>>

\* Lines 54-56: a file of processed_files is skipped.
SkipFile(f) ==
    /\ run_pc = "files"
    /\ f \in marzip_files
    /\ f \in processed_files
    /\ marzip_files' = marzip_files \ {f}
    /\ UNCHANGED <<engine, geo, marzip_dir, csv, run_pc, runs, processed_files,
                   marzip_file, event_i, run_exc>>

\* Line 57: SimulationEngine(marzip_file); load_marzip returns None for a
\* file it cannot read, and the constructor then raises.
OpenFile(f) ==
    /\ run_pc = "files"
    /\ f \in marzip_files
    /\ f \notin processed_files
    /\ marzip_files' = marzip_files \ {f}
    /\ marzip_file' = f
    /\ event_i' = 0
    /\ IF marzip_dir[f].readable
       THEN run_pc' = "events" /\ run_exc' = run_exc
       ELSE run_pc' = "done" /\ run_exc' = "AttributeError"
    /\ UNCHANGED <<engine, geo, marzip_dir, csv, runs, processed_files>>

\* Lines 59-61: simulate_event(i), then record.
SimulateAndRecord ==
    /\ run_pc = "events"
    /\ event_i < Len(marzip_dir[marzip_file].outcomes)
    /\ LET outcome == marzip_dir[marzip_file].outcomes[event_i + 1]
       IN  IF outcome = "raise"
           THEN /\ run_pc' = "done"
                /\ run_exc' = "ZeroDivisionError"
                /\ UNCHANGED <<csv, event_i>>
           ELSE /\ csv' = record(csv, marzip_file, ResultOf(event_i, outcome))
                /\ event_i' = event_i + 1
                /\ UNCHANGED <<run_pc, run_exc>>
    /\ UNCHANGED <<engine, geo, marzip_dir, runs, marzip_files, processed_files,
                   marzip_file>>

\* Lines 62-63: the events of the file are done.
FileDone ==
    /\ run_pc = "events"
    /\ event_i = Len(marzip_dir[marzip_file].outcomes)
    /\ run_pc' = "files"
    /\ UNCHANGED <<engine, geo, marzip_dir, csv, runs, marzip_files, processed_files,
                   marzip_file, event_i, run_exc>>

\* Lines 64-67: after the loop, self.recorder.recorder does not exist.
Summarize ==
    /\ run_pc = "files"
    /\ marzip_files = {}
    /\ run_pc' = "done"
    /\ run_exc' = "AttributeError"
    /\ UNCHANGED <<engine, geo, marzip_dir, csv, runs, marzip_files, processed_files,
                   marzip_file, event_i>>

NextRunner ==
    \/ NewRunner
    \/ RunStart
    \/ \E f \in MarzipPaths : SkipFile(f)
    \/ \E f \in MarzipPaths : OpenFile(f)
    \/ SimulateAndRecord
    \/ FileDone
    \/ Summarize

SpecRunner == InitRunner /\ [][NextRunner]_vars

----------------------------------------------------------------------------
(* Properties of simulate_event *)

\* A simulate_event call has been made (it is under way or has ended).
Called == pc # "idle"

InRange(i) == Truthy(events) /\ i >= 0 /\ i < Len(events)

HasOwn(i) == Truthy(Get(events[i + 1], "own_ship_event", <<>>))

HasRoute(i) == Truthy(Get(events[i + 1], "safe_route", <<>>))

\* No dynamics run was performed: the call returned at once, and the result
\* carries no track and no collision data.
NoDynamicsRun ==
    /\ pc = "returned"
    /\ phase = "NONE"
    /\ res.times = <<>>
    /\ res.own_positions = <<>>
    /\ res.targets_positions = <<>>
    /\ ~res.is_fail
    /\ res.min_distance = None

\* The dynamics run (under way or ended) uses the given safe route, with the
\* own-ship state and the targets of event i.
RunsOn(route, i) ==
    /\ pc \in {"dynamics", "returned", "raised"}
    /\ phase # "NONE" \/ pc = "dynamics"
    /\ route_data = prepare_routes(base_route, events[i + 1].own_ship_event, route)
    /\ own_sog = FloatOrZero(events[i + 1].own_ship_event, "sog")
    /\ tgt_info = prepare_target_info(events[i + 1], route_data.ref_lat,
                                      route_data.ref_lon, route_data.cos_factor)
    /\ pc = "returned" => res.times # <<>> /\ res.event_index = i

\* C1: if the event list is empty, or the index is out of range (negative
\* included), or events[i] has no own-ship state, simulate_event returns
\* NA_NO_PATH with has_path false and performs no dynamics run.
C1_DegenerateInputIsNoPath ==
    (Called /\ (~InRange(event_index) \/ ~HasOwn(event_index)))
        => /\ NoDynamicsRun
           /\ res.result_tag = Some("NA_NO_PATH")
           /\ ~res.has_path
           /\ res.event_index = event_index

C1_Witness ==
    /\ pc = "returned"
    /\ InRange(event_index) /\ event_index > 0
    /\ ~HasOwn(event_index)
    /\ HasRoute(event_index)

\* C2: an in-range event with own-ship state and a non-empty safe route of
\* its own is simulated on its own route, and the result returned is tagged
\* COLLISION exactly when is_fail, NO_COLLISION exactly when not; never NA_*.
C2_OwnRouteTag ==
    (Called /\ InRange(event_index) /\ HasOwn(event_index) /\ HasRoute(event_index))
        => /\ RunsOn(events[event_index + 1].safe_route, event_index)
           /\ ~fallback
           /\ pc = "returned" =>
                /\ res.result_tag \in {Some("COLLISION"), Some("NO_COLLISION")}
                /\ res.result_tag = Some("COLLISION") <=> res.is_fail

C2_Witness ==
    /\ pc = "returned"
    /\ InRange(event_index) /\ HasOwn(event_index) /\ HasRoute(event_index)
    /\ res.is_fail
    /\ res.result_tag = Some("COLLISION")
    /\ Len(events) > 1

\* The fallback case: event i > 0 has own-ship state and no safe route, and
\* event i-1 has a safe route.
FallbackCase(i) ==
    /\ InRange(i) /\ i > 0
    /\ HasOwn(i) /\ ~HasRoute(i)
    /\ HasRoute(i - 1)

\* C3: event 0 with an empty safe route yields NA_NO_PATH with no dynamics
\* run; in the fallback case the dynamics run on event i-1's safe route with
\* event i's own-ship and target data, and the result is tagged NA_COLLISION
\* if is_fail, else NA_NO_PATH.
C3_FallbackChain ==
    /\ (Called /\ InRange(event_index) /\ event_index = 0 /\ ~HasRoute(0))
          => NoDynamicsRun /\ res.result_tag = Some("NA_NO_PATH")
    /\ (Called /\ FallbackCase(event_index))
          => /\ RunsOn(events[event_index].safe_route, event_index)
             /\ fallback
             /\ pc = "returned" =>
                  res.result_tag = Some(IF res.is_fail THEN "NA_COLLISION" ELSE "NA_NO_PATH")

C3_Witness ==
    /\ pc = "returned"
    /\ FallbackCase(event_index)
    /\ res.is_fail
    /\ res.result_tag = Some("NA_COLLISION")
    /\ events[event_index + 1].target_ships # events[event_index].target_ships

\* C4: when events[i] and events[i-1] both have an empty safe route,
\* simulate_event(i) returns NA_NO_PATH without a dynamics run, whatever the
\* safe routes of events[0..i-2]; the route of a dynamics run for event i is
\* always the safe route of event i or of event i-1.
C4_LookbackOneDeep ==
    /\ (Called /\ InRange(event_index) /\ event_index > 0
          /\ ~HasRoute(event_index) /\ ~HasRoute(event_index - 1))
          => NoDynamicsRun /\ res.result_tag = Some("NA_NO_PATH")
    /\ (Called /\ InRange(event_index) /\ HasOwn(event_index) /\ ~NoDynamicsRun)
          => \/ RunsOn(events[event_index + 1].safe_route, event_index)
             \/ event_index > 0 /\ RunsOn(events[event_index].safe_route, event_index)

C4_Witness ==
    /\ pc = "returned"
    /\ event_index = 2 /\ InRange(2)
    /\ HasOwn(2) /\ ~HasRoute(2) /\ ~HasRoute(1) /\ HasRoute(0)
    /\ res.result_tag = Some("NA_NO_PATH")
    /\ res.times = <<>>

----------------------------------------------------------------------------
(* Properties of a dynamics run *)

\* A dynamics run is under way or has ended with a result.
InRun == pc = "dynamics" \/ (pc = "returned" /\ phase # "NONE")

\* A dynamics run has ended with a result.
RunEnded == pc = "returned" /\ phase # "NONE"

\* The run ended by a break of the loop.
EndedEarly == RunEnded /\ phase \in {"TERM_TIMEOUT", "TERM_BASE_END"}

\* Number of ticks of the run so far: one own-ship position is recorded per tick.
NTicks == Len(res.own_positions)

\* Position of a target at second s: start + speed * s / 3600 along its course.
TargetAt(tgt, s) ==
    <<tgt[1] + Traveled(tgt[3], s) * Sin(tgt[4]), tgt[2] + Traveled(tgt[3], s) * Cos(tgt[4])>>

\* Squared distance between the own ship and a target at the k-th tick.
Dist2At(k, tgt) ==
    LET t == TargetAt(tgt, res.times[k])
    IN  Hypot2(res.own_positions[k][1] - t[1], res.own_positions[k][2] - t[2])

\* Ticks of the run at which some target is strictly closer than collision_dist.
CloseTicks ==
    {k \in 1..NTicks : \E j \in 1..Len(tgt_info) :
        Dist2At(k, tgt_info[j]) < collision_dist * collision_dist}

\* The first of a non-empty set of tick numbers.
FirstOf(K) == CHOOSE k \in K : \A m \in K : k <= m

\* is_fail, once true, stays true, and fail_time_sec does not change.
FailSticky ==
    (pc = "dynamics" /\ res.is_fail)
        => (res'.is_fail /\ res'.fail_time_sec = res.fail_time_sec)

\* At the end of the run fail_time_sec is the first tick of the run at which
\* some target is strictly closer than collision_dist, and unset if none is.
FailTimeIsFirstCloseTick ==
    RunEnded =>
        res.fail_time_sec = IF CloseTicks = {} THEN None
                            ELSE Some(res.times[FirstOf(CloseTicks)])

\* C5: within one run is_fail never reverts to false and fail_time_sec never
\* changes once set, and at the end of the run fail_time_sec is the first
\* tick at which any target is strictly closer than collision_dist (unset if
\* there is none).
C5_CollisionMonotonicity == [][FailSticky]_vars /\ []FailTimeIsFirstCloseTick

\* The ticks at which the target loop ran: all but one that broke the loop.
EvaluatedTicks == IF EndedEarly THEN 1..(NTicks - 1) ELSE 1..NTicks

\* What the code does: fail_time_sec is the first close tick among the ticks
\* at which the target loop ran.
FailTimeIsFirstEvaluatedCloseTick ==
    RunEnded =>
        LET K == CloseTicks \cap EvaluatedTicks
        IN  res.fail_time_sec = IF K = {} THEN None ELSE Some(res.times[FirstOf(K)])

\* The safe route's last point and the base route's last point.
SafeEnd == route_data.safe[Len(route_data.safe)]

BaseEnd == route_data.base[Len(route_data.base)]

\* route_transition_timeout_min * 60
TimeoutOfSetup == (IF "TCPA_GW" \in DOMAIN hinas_setup THEN hinas_setup.TCPA_GW ELSE 60) * 60

\* The last tick of the run and the last recorded own-ship position.
LastTick == res.times[Len(res.times)]

LastPosition == res.own_positions[NTicks]

\* The run never makes more than duration_sec / timestep_sec + 1 ticks.
TickBound == InRun => NTicks <= sim_duration_sec \div time_step_sec + 1

\* The three ways a run ends.
EndsNormally ==
    /\ phase \in {"ON_SAFE", "ON_BASE", "HOLD"}
    /\ LastTick = sim_duration_sec

EndsAtBaseEnd ==
    /\ phase = "TERM_BASE_END"
    /\ route_data.base_total_dist # 0
    /\ LastPosition = BaseEnd

\* The timeout elapsed since the safe route was exhausted, with the own ship
\* held at the safe route's end during the tick before.
EndsByTimeoutStalled ==
    /\ phase = "TERM_TIMEOUT"
    /\ safe_path_reached_time # None
    /\ LastTick - safe_path_reached_time[1] >= TimeoutOfSetup
    /\ LastPosition = SafeEnd
    /\ NTicks >= 2 /\ res.own_positions[NTicks - 1] = SafeEnd

EndsOneOfThreeWays ==
    RunEnded =>
        \/ EndsNormally /\ ~EndsAtBaseEnd /\ ~EndsByTimeoutStalled
        \/ EndsAtBaseEnd /\ ~EndsNormally /\ ~EndsByTimeoutStalled
        \/ EndsByTimeoutStalled /\ ~EndsNormally /\ ~EndsAtBaseEnd

\* The tick that ends the run by timeout does not follow a tick positioned
\* on the base route.
TimeoutNotWhileOnBase ==
    (pc = "dynamics" /\ phase' = "TERM_TIMEOUT") => phase # "ON_BASE"

\* C6: a run makes at most duration_sec / timestep_sec + 1 ticks and ends in
\* exactly one of three ways: at duration_sec, at the tick where the own ship
\* reaches the end of the base route (final position = last base point), or
\* when the timeout elapses while the own ship is stalled past the safe
\* route's end; the timeout never ends a run in which the own ship is
\* advancing along the base route.
C6_Termination ==
    /\ []TickBound
    /\ []EndsOneOfThreeWays
    /\ [][TimeoutNotWhileOnBase]_vars

\* Scenario D: the safe route has been exhausted and there is no base route
\* (none, or one of zero total length).
ScenarioD ==
    /\ InRun
    /\ safe_path_reached_time # None
    /\ route_data.base_total_dist = 0

\* The first tick t of the loop with t - safe_reached_time >= timeout.
FirstTickAtTimeout ==
    safe_path_reached_time[1]
        + ((TimeoutOfSetup + time_step_sec - 1) \div time_step_sec) * time_step_sec

\* The run goes no further than tick t, and ends there by the timeout with
\* the own ship at the safe route's last point.
TimesOutAt(t) ==
    /\ LastTick <= t
    /\ RunEnded => /\ phase = "TERM_TIMEOUT"
                   /\ LastTick = t
                   /\ sec = t
                   /\ LastPosition = SafeEnd

\* C7 (as claimed): in scenario D, when the timeout elapses within the run,
\* the run terminates exactly at tick safe_reached_time + timeout * 60: that
\* is the last tick of times, and the final position is the safe route's
\* last point.
C7_Claim_ExactTimeout ==
    (ScenarioD /\ safe_path_reached_time[1] + TimeoutOfSetup <= sim_duration_sec)
        => TimesOutAt(safe_path_reached_time[1] + TimeoutOfSetup)

\* C7 (amended): in scenario D, when the first tick at or after
\* safe_reached_time + timeout * 60 lies within the run, the run terminates
\* exactly at that tick: it is the last tick of times and the final position
\* is the safe route's last point.
C7_TimeoutAtFirstTickAfter ==
    (ScenarioD /\ FirstTickAtTimeout <= sim_duration_sec)
        => TimesOutAt(FirstTickAtTimeout)

C7_Witness ==
    /\ ScenarioD
    /\ RunEnded
    /\ phase = "TERM_TIMEOUT"
    /\ TimeoutOfSetup % time_step_sec # 0
    /\ LastTick > safe_path_reached_time[1] + TimeoutOfSetup

\* Scenario C: the safe route has been exhausted, and the base route is long
\* enough to take the rest of the travel of the whole run.
ScenarioC ==
    /\ InRun
    /\ safe_path_reached_time # None
    /\ route_data.base_total_dist # 0
    /\ project_point_onto_polyline(SafeEnd, route_data.base)
          + (route_data.proj_dist + Traveled(own_sog, sim_duration_sec))
          - route_data.total_safe_dist <= route_data.base_total_dist

\* Squared distance between the k-th and the (k+1)-th recorded position.
Jump2(k) ==
    Hypot2(res.own_positions[k + 1][1] - res.own_positions[k][1],
           res.own_positions[k + 1][2] - res.own_positions[k][2])

\* One timestep's travel distance: speed * timestep_sec / 3600.
StepDist == (own_sog * time_step_sec) \div 3600

\* C8: in scenario C, the distance between the positions recorded at any two
\* consecutive ticks (the pair that straddles the transition onto the base
\* route and the final, terminating tick included) is at most one timestep's
\* travel distance.
C8_NoJumpInScenarioC ==
    ScenarioC => \A k \in 1..(NTicks - 1) : Jump2(k) <= StepDist * StepDist

\* The safe route's last point lies on the base route.
SafeEndOnBase ==
    interpolate_along_route(route_data.base,
        project_point_onto_polyline(SafeEnd, route_data.base)) = Ok(SafeEnd)

\* What the code does: with the safe route ending on the base route, only the
\* tick that ends the run by timeout jumps.
NoJumpUnlessTimeout ==
    (ScenarioC /\ SafeEndOnBase /\ phase # "TERM_TIMEOUT")
       => \A k \in 1..(NTicks - 1) : Jump2(k) <= StepDist * StepDist

----------------------------------------------------------------------------
(* Properties of the result of simulate_event *)

\* The four tags simulate_event gives out.
EmittedTags == {"NA_NO_PATH", "NA_COLLISION", "COLLISION", "NO_COLLISION"}

\* C11: every result returned by simulate_event has result_tag set, to one
\* of NA_NO_PATH, NA_COLLISION, COLLISION, NO_COLLISION; NA_SAFE_TARGET is
\* never given out.
C11_TagAlwaysSet ==
    pc = "returned"
        => /\ res.result_tag # None
           /\ res.result_tag[1] \in EmittedTags
           /\ res.result_tag[1] \in ResultTag \ {"NA_SAFE_TARGET"}

C11_Witness ==
    /\ pc = "returned"
    /\ fallback /\ ~res.is_fail
    /\ res.times # <<>>
    /\ res.result_tag = Some("NA_NO_PATH")

\* The target ships of the event whose data the run uses, and those of them
\* that have a position, in their order in the event.
EventShips == Get(events[event_index + 1], "target_ships", <<>>)

HasPosition(t) == Truthy(Get(t, "position", <<>>))

PositionedShips == SelectSeq(EventShips, HasPosition)

\* Both the speed and the course of a target ship parse as numbers.
Parses(t) == FloatOk(Get(t, "sog", Num(0))) /\ FloatOk(Get(t, "cog", Num(0)))

\* Where a target ship is at second s, from its raw data: its start position
\* in the planar frame of the run, moved along its course at its speed, or
\* left at the start when speed or course does not parse.
ShipAt(t, s) ==
    LET xy == ToPlanar(t.position, route_data.ref_lat, route_data.ref_lon,
                       route_data.cos_factor)
    IN  IF Parses(t)
        THEN <<xy[1] + Traveled(t.sog.num, s) * Sin(Radians(t.cog.num)),
               xy[2] + Traveled(t.sog.num, s) * Cos(Radians(t.cog.num))>>
        ELSE xy

\* C12: target ships without a position have no track and take no part in
\* min_distance or is_fail; after a dynamics run there is one track per
\* positioned target, in the order of the event; a target whose speed or
\* course does not parse has both set to 0 and stays at its start position;
\* the filtering never raises.
C12_TargetFiltering ==
    InRun =>
        /\ Len(tgt_info) = Len(PositionedShips)
        /\ Len(res.targets_positions) = IF NTicks = 0 THEN 0 ELSE Len(PositionedShips)
        /\ \A j \in 1..Len(res.targets_positions) :
              /\ Len(res.targets_positions[j]) = Cardinality(EvaluatedTicks)
              /\ \A k \in 1..Len(res.targets_positions[j]) :
                    res.targets_positions[j][k] = ShipAt(PositionedShips[j], res.times[k])
        /\ \A j \in 1..Len(tgt_info) :
              ~Parses(PositionedShips[j]) => tgt_info[j][3] = 0 /\ tgt_info[j][4] = 0
        /\ PositionedShips = <<>> => res.min_distance = None /\ ~res.is_fail
        /\ exc = ""

C12_Witness ==
    /\ RunEnded
    /\ Len(EventShips) = 2 /\ Len(res.targets_positions) = 1
    /\ ~HasPosition(EventShips[1])
    /\ res.min_distance # None

\* A run with a positioned target whose course does not parse, followed by
\* one that moves.
C12_UnparsedWitness ==
    /\ RunEnded
    /\ Len(PositionedShips) = 2
    /\ ~Parses(PositionedShips[1]) /\ Parses(PositionedShips[2])
    /\ Len(res.targets_positions) = 2
    /\ LET n == Len(res.targets_positions[1])
       IN  /\ n > 1
           /\ res.targets_positions[1][n] = res.targets_positions[1][1]
           /\ res.targets_positions[2][n] # res.targets_positions[2][1]

\* The least squared own-to-target distance over the ticks K and all targets.
MinDist2Over(K) ==
    LET D == {Dist2At(k, tgt_info[j]) : k \in K, j \in 1..Len(tgt_info)}
    IN  CHOOSE d \in D : \A e \in D : d <= e

\* The ticks of K at which some target is at squared distance d.
TicksAt(K, d) == {k \in K : \E j \in 1..Len(tgt_info) : Dist2At(k, tgt_info[j]) = d}

\* min_distance and min_distance_time are the least distance over the ticks
\* K and the earliest tick of K attaining it; unset and 0 without targets.
MinDistanceIsMinOver(K) ==
    IF tgt_info = <<>>
    THEN res.min_distance = None /\ res.min_distance_time = 0
    ELSE /\ res.min_distance = Some(MinDist2Over(K))
         /\ res.min_distance_time = res.times[FirstOf(TicksAt(K, MinDist2Over(K)))]

\* C14: at the end of a run with a positioned target, min_distance is the
\* minimum own-to-target distance over all (tick, target) pairs of the run
\* and min_distance_time the earliest tick attaining it; with no positioned
\* target min_distance is unset and min_distance_time is 0.
C14_MinDistanceTracking == RunEnded => MinDistanceIsMinOver(1..NTicks)

\* What the code does: the minimum is over the ticks at which the target
\* loop ran.
MinDistanceOverEvaluatedTicks == RunEnded => MinDistanceIsMinOver(EvaluatedTicks)

\* C15: times and own_positions have the same length, times starts at 0 and
\* increases by time_step_sec, so own_positions[k] is the position at
\* times[k], whether the run ends at the duration or early.
C15_TrackAlignment ==
    InRun =>
        /\ Len(res.times) = Len(res.own_positions)
        /\ \A k \in 1..Len(res.times) : res.times[k] = (k - 1) * time_step_sec

\* What the code does: aligned but for the tick an early termination
\* appends a second time.
AlignedButForLastTick ==
    InRun =>
        /\ Len(res.times) = NTicks + (IF EndedEarly THEN 1 ELSE 0)
        /\ \A k \in 1..NTicks : res.times[k] = (k - 1) * time_step_sec
        /\ EndedEarly => res.times[NTicks + 1] = res.times[NTicks]

\* The distance along the safe route the own ship wants to be at, at second s.
DesiredAt(s) == route_data.proj_dist + Traveled(own_sog, s)

\* The ticks recorded so far at which the safe route is exhausted.
PastSafeTicks == {k \in 1..NTicks : DesiredAt(res.times[k]) > route_data.total_safe_dist}

\* The position on the base route for tick k: the projection of the safe
\* route's end onto the base route, plus the distance travelled past that end.
OnBaseAt(k) ==
    interpolate_along_route(route_data.base,
        project_point_onto_polyline(SafeEnd, route_data.base)
            + (DesiredAt(res.times[k]) - route_data.total_safe_dist))

\* C16: at every tick after the safe route is exhausted and before the run
\* terminates, the own ship is at the safe route's last point when there is
\* no base route (empty or of zero length), the same at all such ticks, and
\* otherwise at interpolate_along(base route, offset of the safe route's end
\* on the base route + distance past the safe route's end).
C16_PostSafeRoutePosition ==
    InRun =>
        \A k \in PastSafeTicks \cap EvaluatedTicks :
            IF route_data.base_total_dist = 0
            THEN /\ res.own_positions[k] = SafeEnd
                 /\ \A m \in PastSafeTicks \cap EvaluatedTicks :
                        res.own_positions[m] = res.own_positions[k]
            ELSE OnBaseAt(k) = Ok(res.own_positions[k])

C16_Witness ==
    /\ RunEnded
    /\ phase = "ON_BASE"
    /\ project_point_onto_polyline(SafeEnd, route_data.base) > 0
    /\ Cardinality(PastSafeTicks \cap EvaluatedTicks) >= 2
    /\ res.own_positions[NTicks] # res.own_positions[NTicks - 1]

\* A run held at the safe route's end for several ticks for want of a base route.
C16_HoldWitness ==
    /\ RunEnded
    /\ route_data.base_total_dist = 0
    /\ Cardinality(PastSafeTicks \cap EvaluatedTicks) >= 2

\* The first tick is positioned on the safe route.
FirstTickOnSafe ==
    (InRun /\ NTicks >= 1)
        => /\ DesiredAt(0) <= route_data.total_safe_dist
           /\ interpolate_along_route(route_data.safe, DesiredAt(0)) = Ok(res.own_positions[1])

\* safe_path_reached_time is the first tick at which the safe route is
\* exhausted, unset while there is none.
ReachedTimeIsFirstPast ==
    InRun => safe_path_reached_time =
                IF PastSafeTicks = {} THEN None
                ELSE Some(res.times[FirstOf(PastSafeTicks)])

\* Once set, safe_path_reached_time is not changed by a tick.
ReachedTimeSetOnce ==
    (pc = "dynamics" /\ safe_path_reached_time # None)
        => safe_path_reached_time' = safe_path_reached_time

\* After a tick past the safe route no tick is positioned on the safe route.
NoReturnToSafe ==
    (pc = "dynamics" /\ safe_path_reached_time # None) => phase' # "ON_SAFE"

\* C17: the first tick (sec = 0) is positioned on the safe route;
\* safe_path_reached_time is set once, to the first tick whose desired
\* distance exceeds the safe route's length, and never changed; after a tick
\* positioned past the safe route no later tick is positioned on it.
C17_PhaseMonotonicity ==
    /\ []FirstTickOnSafe
    /\ []ReachedTimeIsFirstPast
    /\ [][ReachedTimeSetOnce]_vars
    /\ [][NoReturnToSafe]_vars

C17_Witness ==
    /\ RunEnded
    /\ safe_path_reached_time # None
    /\ safe_path_reached_time[1] > 0
    /\ LastTick >= safe_path_reached_time[1] + 2 * time_step_sec
    /\ phase \in {"ON_BASE", "HOLD"}

\* The ticks recorded in times.
TickSet == {res.times[k] : k \in 1..Len(res.times)}

\* C18: after every tick and in the result returned, is_fail holds exactly
\* when min_distance is set and below collision_dist; fail_time_sec is set
\* exactly when is_fail; and when is_fail, fail_time_sec is no later than
\* min_distance_time and both are ticks of times.
C18_ResultConsistency ==
    (InRun \/ pc = "returned") =>
        /\ res.is_fail <=> (/\ res.min_distance # None
                            /\ res.min_distance[1] < collision_dist * collision_dist)
        /\ res.fail_time_sec # None <=> res.is_fail
        /\ res.is_fail => /\ res.fail_time_sec[1] <= res.min_distance_time
                          /\ res.fail_time_sec[1] \in TickSet
                          /\ res.min_distance_time \in TickSet

C18_Witness ==
    /\ RunEnded
    /\ res.is_fail
    /\ res.fail_time_sec[1] < res.min_distance_time

\* A run that comes to exactly collision_dist of a target and no closer.
C18_ThresholdWitness ==
    /\ RunEnded
    /\ ~res.is_fail
    /\ res.min_distance = Some(collision_dist * collision_dist)

----------------------------------------------------------------------------
(* Properties of the batch runner (specification SpecRunner) *)

\* The rows of SPG_result.csv, header included; none while the file is absent.
Rows == IF csv = None THEN <<>> ELSE csv[1]

\* The file paths in the first column of the data rows.
RecordedFiles == {Rows[k][1] : k \in 2..Len(Rows)}

\* At most one data row per (file, event_index) pair.
OneRowPerEvent ==
    \A p, q \in 2..Len(Rows) :
        (Rows[p][1] = Rows[q][1] /\ Rows[p][2] = Rows[q][2]) => p = q

\* A file of processed_files is never the one being simulated.
ProcessedNotSimulated == run_pc = "events" => marzip_file \notin processed_files

\* A run starts with processed_files = the files recorded in the CSV.
RunLoadsRecordedFiles == runs' # runs => processed_files' = RecordedFiles

\* A data row is appended only for a file that had no row when the run started.
NoRowForProcessed ==
    (csv # None /\ Len(Rows') > Len(Rows))
        => /\ Len(Rows') = Len(Rows) + 1
           /\ Rows'[Len(Rows')][1] \notin processed_files

\* C13: run() skips every file whose path is in the first column of
\* SPG_result.csv, neither simulating nor recording it again; after any
\* number of run() calls over the same directory the CSV has at most one row
\* per (file, event_index) pair, and a later run appends no row for a file
\* that already has a recorded event.
C13_SkipsProcessedFiles ==
    /\ []OneRowPerEvent
    /\ []ProcessedNotSimulated
    /\ [][RunLoadsRecordedFiles]_vars
    /\ [][NoRowForProcessed]_vars

C13_Witness ==
    /\ runs = 2
    /\ run_pc = "done" /\ marzip_files = {}
    /\ processed_files = MarzipPaths
    /\ RecordedFiles = MarzipPaths
    /\ Len(Rows) = 1 + 2 * MaxFileEvents

----------------------------------------------------------------------------
(* Properties of the geometry functions (specification SpecGeo) *)

\* C9: for a route of at least 2 points and total length L,
\* interpolate_along_route(route, 0) returns route[0], and
\* interpolate_along_route(route, d) returns route[-1] for every d >= L.
C9_InterpolationBoundary ==
    (geo_op = "interpolate" /\ Len(geo_pts) >= 2)
        => /\ geo_dist = 0 => geo_out = Ok(geo_pts[1])
           /\ geo_dist >= TotalLength(geo_pts) => geo_out = Ok(geo_pts[Len(geo_pts)])

\* What the code does at the far end: clamped to the last point.
InterpolationClampedAtEnd ==
    (geo_op = "interpolate" /\ Len(geo_pts) >= 2 /\ geo_dist >= TotalLength(geo_pts))
        => geo_out = Ok(geo_pts[Len(geo_pts)])

\* C10: interpolate_along_route and project_point_onto_polyline return a
\* value for every polyline (empty, single-point, with zero-length segments)
\* and every query: for fewer than 2 points the single point / 0.
C10_GeometryNeverRaises ==
    geo_op # "none"
        => /\ geo_out.ok
           /\ (geo_op = "interpolate" /\ Len(geo_pts) = 1) => geo_out = Ok(geo_pts[1])
           /\ (geo_op = "project" /\ Len(geo_pts) < 2) => geo_out = Ok(0)

\* The consequence C10 draws for the engine (specification Spec): no
\* simulate_event call ends in an exception.
DynamicsNeverRaises == pc # "raised"

====
